---- MODULE Spec2Model ----
(***************************************************************************)
(* Package rename of an Android module (src/utils/packageUtils.js).        *)
(*                                                                         *)
(* Text is a sequence of tokens: an identifier chunk ("com", "app"), a     *)
(* digit chunk ("2"), a keyword ("package", "import") or one character     *)
(* (".", "/", " ", "\n", ";", "=", a quote).  Identifiers are cut into     *)
(* chunks so that every place where a namespace of the model can end is a  *)
(* chunk boundary: "app2" is <<"app", "2">>.  The regular expressions of   *)
(* the source are matched token by token, with the greedy/backtracking     *)
(* result JavaScript computes.                                             *)
(*                                                                         *)
(* A filesystem path is the sequence of its components, relative to the    *)
(* working directory of the action; <<>> is the working directory.         *)
(***************************************************************************)
EXTENDS Integers, Sequences, FiniteSets, TLC

\* ---------------------------------------------------------------- bounds
MaxFiles == 2
MaxFaults == 1
MaxCodecLen == 5

\* ------------------------------------------------------------ text layer
SpaceTok == {" ", "\n"}
AlphaTok == {"package", "import", "applicationId", "namespace", "class",
             "com", "acme", "app", "ui", "foo", "bar", "other", "x"}
DigitTok == {"2"}
NameTok == AlphaTok \cup DigitTok \cup {".", "_"}
WordTok == AlphaTok \cup DigitTok \cup {"_"}
QuoteTok == {"\"", "'"}

Max(S) == CHOOSE x \in S : \A y \in S : y <= x
Min(S) == CHOOSE x \in S : \A y \in S : x <= y

RECURSIVE RunEnd(_, _, _)
RunEnd(s, i, S) ==
  IF i > Len(s) \/ s[i] \notin S THEN i ELSE RunEnd(s, i + 1, S)

HasLit(s, i, lit) ==
  /\ i >= 1
  /\ i + Len(lit) - 1 <= Len(s)
  /\ \A k \in 1..Len(lit) : s[i + k - 1] = lit[k]

AtLineStart(s, i) == i = 1 \/ s[i - 1] = "\n"
AtLineEnd(s, i) == i = Len(s) + 1 \/ s[i] = "\n"

Splice(s, i, e, rep) == SubSeq(s, 1, i - 1) \o rep \o SubSeq(s, e, Len(s))

TokAt(s, i) == IF i >= 1 /\ i <= Len(s) THEN s[i] ELSE "<eof>"

\* /^package\s+([a-zA-Z][a-zA-Z0-9_.]*)/m at position i: <<start, end>> of the
\* captured name, <<0, 0>> when the pattern does not match at i.
PackagePatternAt(s, i) ==
  IF ~(AtLineStart(s, i) /\ TokAt(s, i) = "package" /\ TokAt(s, i + 1) \in SpaceTok)
  THEN <<0, 0>>
  ELSE LET k == RunEnd(s, i + 1, SpaceTok)
       IN IF TokAt(s, k) \notin AlphaTok THEN <<0, 0>>
          ELSE <<k, RunEnd(s, k + 1, NameTok)>>

\* /^package\s+[a-zA-Z][a-zA-Z0-9_.]*\s*$/m at position i: the end of the
\* match (exclusive), 0 when there is none.  \s* is greedy and gives back
\* white space until $ (end of input or before a line terminator) holds.
DeclLineEnd(s, i) ==
  LET g == PackagePatternAt(s, i)
  IN IF g[1] = 0 THEN 0
     ELSE LET m == g[2]
              n == RunEnd(s, m, SpaceTok)
              ends == {e \in m..n : AtLineEnd(s, e)}
          IN IF ends = {} THEN 0 ELSE Max(ends)

\* new RegExp(`^package\\s+${escapeRegex(oldPackage)}`, 'm')
PackageOldEnd(s, i, lit) ==
  IF ~(AtLineStart(s, i) /\ TokAt(s, i) = "package" /\ TokAt(s, i + 1) \in SpaceTok)
  THEN 0
  ELSE LET k == RunEnd(s, i + 1, SpaceTok)
       IN IF HasLit(s, k, lit) THEN k + Len(lit) ELSE 0

\* new RegExp(`import\\s+${escapeRegex(oldPackage)}`, 'g')
ImportOldEnd(s, i, lit) ==
  IF ~(TokAt(s, i) = "import" /\ TokAt(s, i + 1) \in SpaceTok) THEN 0
  ELSE LET k == RunEnd(s, i + 1, SpaceTok)
       IN IF HasLit(s, k, lit) THEN k + Len(lit) ELSE 0

\* new RegExp(`\\b${escapeRegex(oldPackage)}\\.`, 'g')
QualifiedOldEnd(s, i, lit) ==
  IF /\ (i = 1 \/ TokAt(s, i - 1) \notin WordTok)
     /\ HasLit(s, i, lit \o <<".">>)
  THEN i + Len(lit) + 1 ELSE 0

\* Variant of QuotedOldEnd that does not look for the closing quote.
QuotedOldEndPrefix(s, b, lit) ==
  IF TokAt(s, b) \in QuoteTok /\ HasLit(s, b + 1, lit)
  THEN b + Len(lit) + 1 ELSE 0

\* The tail ["']old["'] of the two descriptor patterns, from position b.
QuotedOldEnd(s, b, lit) ==
  IF /\ TokAt(s, b) \in QuoteTok
     /\ HasLit(s, b + 1, lit)
     /\ TokAt(s, b + 1 + Len(lit)) \in QuoteTok
  THEN b + Len(lit) + 2 ELSE 0

\* new RegExp(`applicationId\\s*=?\\s*["']${escapeRegex(oldPackage)}["']`, 'g')
ApplicationIdOldEnd(s, i, lit) ==
  IF TokAt(s, i) # "applicationId" THEN 0
  ELSE LET a == RunEnd(s, i + 1, SpaceTok)
           b == IF TokAt(s, a) = "=" THEN RunEnd(s, a + 1, SpaceTok) ELSE a
       IN QuotedOldEnd(s, b, lit)

\* new RegExp(`package\\s*=\\s*["']${escapeRegex(oldPackage)}["']`, 'g')
ManifestOldEnd(s, i, lit) ==
  IF TokAt(s, i) # "package" THEN 0
  ELSE LET a == RunEnd(s, i + 1, SpaceTok)
       IN IF TokAt(s, a) # "=" THEN 0
          ELSE QuotedOldEnd(s, RunEnd(s, a + 1, SpaceTok), lit)

MatchEnd(kind, s, i, lit) ==
  CASE kind = "import" -> ImportOldEnd(s, i, lit)
    [] kind = "qualified" -> QualifiedOldEnd(s, i, lit)
    [] kind = "applicationId" -> ApplicationIdOldEnd(s, i, lit)
    [] kind = "manifest" -> ManifestOldEnd(s, i, lit)
    [] kind = "literal" -> IF HasLit(s, i, lit) THEN i + Len(lit) ELSE 0

\* String.prototype.replace with a global pattern: matches are taken left to
\* right, each search resuming where the previous match ended.
RECURSIVE ReplaceAllFrom(_, _, _, _, _)
ReplaceAllFrom(kind, s, i, lit, rep) ==
  IF i > Len(s) THEN <<>>
  ELSE LET e == MatchEnd(kind, s, i, lit)
       IN IF e # 0 THEN rep \o ReplaceAllFrom(kind, s, e, lit, rep)
          ELSE <<s[i]>> \o ReplaceAllFrom(kind, s, i + 1, lit, rep)

ReplaceAll(kind, s, lit, rep) == ReplaceAllFrom(kind, s, 1, lit, rep)

\* Variant of packageToPath that replaces the first dot only (a pattern
\* without the g flag).
packageToPathFirstOnly(packageName) ==
  LET I == {i \in 1..Len(packageName) : packageName[i] = "."}
  IN [i \in 1..Len(packageName) |->
        IF I # {} /\ i = Min(I) THEN "/" ELSE packageName[i]]

packageToPath(packageName) ==
  [i \in 1..Len(packageName) |->
     IF packageName[i] = "." THEN "/" ELSE packageName[i]]

pathToPackage(packagePath) ==
  [i \in 1..Len(packagePath) |->
     IF packagePath[i] = "/" THEN "." ELSE packagePath[i]]

\* content.match(PACKAGE_PATTERN): the declared package, <<>> for no match.
extractPackage(content) ==
  LET I == {i \in 1..Len(content) : PackagePatternAt(content, i)[1] # 0}
  IN IF I = {} THEN <<>>
     ELSE LET g == PackagePatternAt(content, Min(I))
          IN SubSeq(content, g[1], g[2] - 1)

\* Variant of updatePackageDeclarationWithSubdir that puts a declaration in
\* front of a text that has none.
updatePackageDeclarationOrInsert(content, newPackage, relativeDirPath) ==
  LET fullPackage ==
        IF relativeDirPath # <<>> /\ relativeDirPath # <<".">>
        THEN newPackage \o <<".">> \o pathToPackage(relativeDirPath)
        ELSE newPackage
      I == {i \in 1..Len(content) : DeclLineEnd(content, i) # 0}
  IN IF I = {} THEN <<"package", " ">> \o fullPackage \o <<"\n">> \o content
     ELSE Splice(content, Min(I), DeclLineEnd(content, Min(I)),
                 <<"package", " ">> \o fullPackage)

updatePackageDeclarationWithSubdir(content, newPackage, relativeDirPath) ==
  LET fullPackage ==
        IF relativeDirPath # <<>> /\ relativeDirPath # <<".">>
        THEN newPackage \o <<".">> \o pathToPackage(relativeDirPath)
        ELSE newPackage
      I == {i \in 1..Len(content) : DeclLineEnd(content, i) # 0}
  IN IF I = {} THEN content
     ELSE Splice(content, Min(I), DeclLineEnd(content, Min(I)),
                 <<"package", " ">> \o fullPackage)

updatePackageReferencesInContent(content, oldPackage, newPackage) ==
  LET I == {i \in 1..Len(content) : PackageOldEnd(content, i, oldPackage) # 0}
      c1 == IF I = {} THEN content
            ELSE Splice(content, Min(I), PackageOldEnd(content, Min(I), oldPackage),
                        <<"package", " ">> \o newPackage)
      c2 == ReplaceAll("import", c1, oldPackage, <<"import", " ">> \o newPackage)
  IN ReplaceAll("qualified", c2, oldPackage, newPackage \o <<".">>)

updateBuildContent(content, oldPackage, newPackage) ==
  ReplaceAll("applicationId", content, oldPackage,
             <<"applicationId", " ", "\"">> \o newPackage \o <<"\"">>)

updateManifestContent(content, oldPackage, newPackage) ==
  ReplaceAll("manifest", content, oldPackage,
             <<"package", "=", "\"">> \o newPackage \o <<"\"">>)

\* ------------------------------------------------------------ path layer
\* path.join(base, str): the components of str appended to base.  Directory
\* and file names of the model are single tokens.
RECURSIVE Components(_)
Components(str) ==
  IF str = <<>> THEN <<>>
  ELSE IF Head(str) = "/" THEN Components(Tail(str))
       ELSE <<Head(str)>> \o Components(Tail(str))

pathJoin(base, str) == base \o Components(str)

\* path.dirname of a path given by its components; dirname(".") is ".".
dirname(p) == IF p = <<>> THEN <<>> ELSE SubSeq(p, 1, Len(p) - 1)

RECURSIVE JoinWith(_, _)
JoinWith(parts, sep) ==
  IF parts = <<>> THEN <<>>
  ELSE IF Len(parts) = 1 THEN <<parts[1]>>
       ELSE <<parts[1], sep>> \o JoinWith(Tail(parts), sep)

\* path.dirname(file) of a relative listing entry, as a string.
relativeDirname(rel) ==
  IF Len(rel) <= 1 THEN <<".">> ELSE JoinWith(SubSeq(rel, 1, Len(rel) - 1), "/")

\* oldPackage.split('.'): the segments (single tokens in the model).
RECURSIVE splitDots(_)
splitDots(str) ==
  IF str = <<>> THEN <<>>
  ELSE IF Head(str) = "." THEN splitDots(Tail(str))
       ELSE <<Head(str)>> \o splitDots(Tail(str))

IsPrefix(a, b) == Len(a) <= Len(b) /\ SubSeq(b, 1, Len(a)) = a

KtNames == {"Main.kt", "Widget.kt", "Keep.kt"}
JavaNames == {"MainTest.java"}
\* file.endsWith('.kt') || file.endsWith('.java')
isSourceName(rel) == rel # <<>> /\ rel[Len(rel)] \in KtNames \cup JavaNames

\* The order in which a directory's entries are listed.
NameOrder == <<"AndroidManifest.xml", "Keep.kt", "Main.kt", "MainTest.java",
               "Widget.kt", "acme", "app", "bar", "build.gradle",
               "build.gradle.kts", "com", "foo", "java", "kotlin", "main",
               "notes.txt", "other", "src", "test", "androidTest", "ui">>
Rank(n) == CHOOSE i \in 1..Len(NameOrder) : NameOrder[i] = n

RECURSIVE LexLess(_, _)
LexLess(a, b) ==
  IF a = <<>> \/ b = <<>> THEN a = <<>> /\ b # <<>>
  ELSE IF Head(a) = Head(b) THEN LexLess(Tail(a), Tail(b))
       ELSE Rank(Head(a)) < Rank(Head(b))

\* Breadth-first: shallower entries first, and an entry's children in the
\* order of their parents.
ListedBefore(a, b) == Len(a) < Len(b) \/ (Len(a) = Len(b) /\ LexLess(a, b))

RECURSIVE SortListing(_)
SortListing(S) ==
  IF S = {} THEN <<>>
  ELSE LET m == CHOOSE x \in S : \A y \in S : x = y \/ ListedBefore(x, y)
       IN <<m>> \o SortListing(S \ {m})

exists(ds, fl, p) == p \in ds \/ p \in DOMAIN fl

\* fs.readdirSync(directory, { recursive: true }): every file and directory
\* below the directory, relative to it.
readdirRecursive(ds, fl, directory) ==
  SortListing({SubSeq(p, Len(directory) + 1, Len(p)) :
                 p \in {q \in ds \cup DOMAIN fl :
                          IsPrefix(directory, q) /\ q # directory}})

\* fs.readdirSync(directory): the direct entries.
readdir(ds, fl, directory) ==
  {p \in ds \cup DOMAIN fl : p # <<>> /\ dirname(p) = directory}

\* ensureDirectoryExists: mkdirSync(dirPath, { recursive: true }) if missing.
ensureDirectoryExists(ds, fl, dirPath) ==
  IF exists(ds, fl, dirPath) THEN ds
  ELSE ds \cup {SubSeq(dirPath, 1, k) : k \in 0..Len(dirPath)}

writeFile(fl, p, c) == [q \in DOMAIN fl \cup {p} |-> IF q = p THEN c ELSE fl[q]]
unlink(fl, p) == [q \in DOMAIN fl \ {p} |-> fl[q]]

\* ------------------------------------------------------- locator (pure)
NoRoot == <<"<null>">>

\* Variant of hasSourceFiles that accepts every directory.
hasSourceFilesAnyDir(ds, fl, directory) == directory \in ds

hasSourceFiles(ds, fl, directory) ==
  \E k \in 1..Len(readdirRecursive(ds, fl, directory)) :
     isSourceName(readdirRecursive(ds, fl, directory)[k])

\* The loop of findOldPackageRoot from i parts down to 1.
RECURSIVE findPartial(_, _, _, _, _)
findPartial(ds, fl, sourcePath, packageParts, i) ==
  IF i <= 0 THEN NoRoot
  ELSE LET partialPackage == JoinWith(SubSeq(packageParts, 1, i), ".")
           partialPath == pathJoin(sourcePath, packageToPath(partialPackage))
       IN IF exists(ds, fl, partialPath) /\ hasSourceFiles(ds, fl, partialPath)
          THEN partialPath
          ELSE findPartial(ds, fl, sourcePath, packageParts, i - 1)

findOldPackageRoot(ds, fl, sourcePath, oldPkg) ==
  IF oldPkg = <<>> THEN NoRoot
  ELSE LET oldRoot == pathJoin(sourcePath, packageToPath(oldPkg))
       IN IF exists(ds, fl, oldRoot) THEN oldRoot
          ELSE findPartial(ds, fl, sourcePath, splitDots(oldPkg),
                           Len(splitDots(oldPkg)))

\* The loop of findOldPackageRoot when readdirSync throws inside
\* hasSourceFiles for the directories in unlisted: the catch of
\* hasSourceFiles returns false and nothing is logged.
RECURSIVE findPartialUnlisted(_, _, _, _, _, _)
findPartialUnlisted(ds, fl, sourcePath, packageParts, i, unlisted) ==
  IF i <= 0 THEN NoRoot
  ELSE LET partialPackage == JoinWith(SubSeq(packageParts, 1, i), ".")
           partialPath == pathJoin(sourcePath, packageToPath(partialPackage))
       IN IF /\ exists(ds, fl, partialPath)
             /\ partialPath \notin unlisted
             /\ hasSourceFiles(ds, fl, partialPath)
          THEN partialPath
          ELSE findPartialUnlisted(ds, fl, sourcePath, packageParts, i - 1,
                                   unlisted)

\* ------------------------------------------------------------- constants
appModule == <<"app">>
JAVA_SOURCE_DIR == <<"src", "/", "main", "/", "java">>
KOTLIN_SOURCE_DIR == <<"src", "/", "main", "/", "kotlin">>
\* The list of updateAllPackageReferencesInProject.
referenceDirs == <<JAVA_SOURCE_DIR, KOTLIN_SOURCE_DIR>>
\* The list of updatePackageReferences.
sourceDirs == <<JAVA_SOURCE_DIR, KOTLIN_SOURCE_DIR,
                <<"src", "/", "test", "/", "java">>,
                <<"src", "/", "test", "/", "kotlin">>,
                <<"src", "/", "androidTest", "/", "java">>,
                <<"src", "/", "androidTest", "/", "kotlin">>>>
buildFiles == <<<<"build.gradle">>, <<"build.gradle.kts">>>>
manifestFile == <<"src", "/", "main", "/", "AndroidManifest.xml">>

\* ---------------------------------------------------- the inputs of a run
NsApp == <<"com", ".", "acme", ".", "app">>
NsAcme == <<"com", ".", "acme">>
NsFoo == <<"com", ".", "foo", ".", "bar">>
NsUi == <<"com", ".", "acme", ".", "app", ".", "ui">>
OldPackages == {NsApp, NsAcme}
NewPackages == {<<>>, NsApp, NsAcme, NsFoo, NsUi}

Decl(ns) == <<"package", " ">> \o ns
MainRoot == pathJoin(appModule, JAVA_SOURCE_DIR)
TestRoot == pathJoin(appModule, sourceDirs[3])

CandidateFiles ==
  { [path |-> MainRoot \o <<"com", "acme", "app", "Main.kt">>,
     content |-> Decl(NsApp) \o <<"\n", "\n", "import", " ">> \o NsUi
                   \o <<".", "x", "\n">>],
    [path |-> MainRoot \o <<"com", "acme", "app", "ui", "Widget.kt">>,
     content |-> Decl(NsUi) \o <<"\n">>],
    [path |-> MainRoot \o <<"com", "acme", "Main.kt">>,
     content |-> Decl(NsApp) \o <<"\n">>],
    [path |-> MainRoot \o <<"com", "acme", "app", "notes.txt">>,
     content |-> <<"x">>],
    [path |-> MainRoot \o <<"com", "foo", "bar", "Main.kt">>,
     content |-> Decl(NsFoo) \o <<"\n", "class", " ", "x", "\n">>],
    [path |-> MainRoot \o <<"com", "acme", "app", "ui", "Main.kt">>,
     content |-> <<"class", " ", "x", "\n">>],
    [path |-> MainRoot \o <<"com", "other", "Keep.kt">>,
     content |-> Decl(NsApp \o <<"2">>) \o <<"\n", "import", " ">> \o NsApp
                   \o <<"2", ".", "x", "\n">>],
    [path |-> TestRoot \o <<"com", "acme", "app", "MainTest.java">>,
     content |-> Decl(NsApp) \o <<";", "\n", "import", " ">> \o NsApp
                   \o <<".", "x", ";", "\n">>] }

\* The descriptor files of the module: none, or a build file and a manifest
\* naming com.acme.app, or naming com.acme.app2.
Descriptors(kind) ==
  CASE kind = "none" -> {}
    [] kind = "exact" ->
         { [path |-> appModule \o <<"build.gradle">>,
            content |-> <<"namespace", " ", "=", " ", "\"">> \o NsApp
                          \o <<"\"", "\n", "applicationId", " ", "=", " ", "\"">>
                          \o NsApp \o <<"\"", "\n">>],
           [path |-> pathJoin(appModule, manifestFile),
            content |-> <<"package", "=", "\"">> \o NsApp \o <<"\"">>] }
    [] kind = "similar" ->
         { [path |-> appModule \o <<"build.gradle">>,
            content |-> <<"applicationId", " ", "\"">> \o NsApp
                          \o <<"2", "\"", "\n">>],
           [path |-> pathJoin(appModule, manifestFile),
            content |-> <<"package", " ", "=", " ", "'">> \o NsApp
                          \o <<"2", "'">>] }
DescriptorKinds == {"none", "exact", "similar"}

\* An empty directory the tree may hold besides the ancestors of its files.
ExtraDirs == {{}, {MainRoot \o <<"com", "acme", "app">>},
              {MainRoot \o <<"com", "acme">>}}

Ancestors(p) == {SubSeq(p, 1, k) : k \in 0..(Len(p) - 1)}
TreeFiles(S) == [p \in {r.path : r \in S} |->
                   (CHOOSE r \in S : r.path = p).content]
TreeDirs(S, extra) ==
  UNION {Ancestors(r.path) : r \in S} \cup Ancestors(MainRoot) \cup {MainRoot}
    \cup extra \cup UNION {Ancestors(d) : d \in extra}

\* ----------------------------------------------------------------- state
VARIABLES
  dirs,            \* the directories that exist
  files,           \* the files that exist, with their content
  oldPackage,      \* argument of updatePackageReferences
  newPackage,      \* argument of updatePackageReferences
  pc,              \* position in updatePackageReferences
  sd,              \* index of the source directory being processed
  oldPackageRoot,  \* restructurePackageDirectory: the located root
  newPackageRoot,  \* restructurePackageDirectory: the new root
  listing,         \* movePackageStructure: files, the recursive listing
  idx,             \* movePackageStructure: position in the listing
  movedItems,      \* movePackageStructure: movedItems
  cur,             \* cleanupOldPackageStructure: its argument
  warnings,        \* number of core.warning calls
  errors,          \* number of core.error calls
  faults,          \* I/O failures the environment may still inject
  files0,          \* the files at the start of the run (history)
  dirs0,           \* the directories at the start of the run (history)
  written,         \* the paths written or copied to so far (history)
  moveResult,      \* how the last restructurePackageDirectory ended (history)
  codec,           \* a use of packageToPath / pathToPackage: argument,
                   \* the calls made so far and the current value
  run,             \* the entry script: its inputs, its position, the
                   \* branding calls made so far and its status output
  previous,        \* the earlier calls of updatePackageReferences: the tree
                   \* each started from and the tree it left (history)
  assetRun         \* a call of downloadAndSetAssets: its argument, its
                   \* position, the calls it made and what it returns

vars == <<dirs, files, oldPackage, newPackage, pc, sd, oldPackageRoot,
          newPackageRoot, listing, idx, movedItems, cur, warnings, errors,
          faults, files0, dirs0, written, moveResult, codec, run, previous,
          assetRun>>

codecIdle == [arg |-> <<>>, calls |-> <<>>, value |-> <<>>]

noFlavor == [logo_url |-> FALSE, id |-> FALSE, package_name |-> <<>>,
             app_name |-> FALSE, theme |-> FALSE]
assetIdle == [assets |-> <<>>, isObject |-> FALSE, at |-> "idle", i |-> 1,
              outcome |-> <<>>, downloadedAssets |-> {}, exported |-> {},
              warnings |-> 0, output |-> -1, failed |-> FALSE]
runIdle == [at |-> "idle", apiKey |-> FALSE, flavorJson |-> "empty",
            projectType |-> "", flavor |-> noFlavor,
            existingPackage |-> <<>>, logoPath |-> "null", executed |-> {},
            status |-> "none"]

Init ==
  /\ \E S \in SUBSET CandidateFiles, k \in DescriptorKinds, extra \in ExtraDirs :
       /\ Cardinality(S) <= MaxFiles
       /\ files = TreeFiles(S \cup Descriptors(k))
       /\ dirs = TreeDirs(S \cup Descriptors(k), extra)
  /\ files0 = files
  /\ dirs0 = dirs
  /\ oldPackage \in OldPackages
  /\ newPackage \in NewPackages
  /\ pc = "start"
  /\ sd = 1
  /\ oldPackageRoot = NoRoot
  /\ newPackageRoot = NoRoot
  /\ listing = <<>>
  /\ idx = 1
  /\ movedItems = 0
  /\ cur = NoRoot
  /\ warnings = 0
  /\ errors = 0
  /\ faults = MaxFaults
  /\ written = {}
  /\ moveResult = "none"
  /\ codec = codecIdle
  /\ run = runIdle
  /\ previous = <<>>
  /\ assetRun = assetIdle

\* --------------------------------------------------------------- actions
inputsUnchanged ==
  UNCHANGED <<oldPackage, newPackage, files0, dirs0, codec, run, previous,
              assetRun>>
moveUnchanged == UNCHANGED <<oldPackageRoot, newPackageRoot, listing, idx,
                             movedItems, cur>>

\* Variant of skipsRename that forgets the equality test.
skipsRenameNoEquality(o, n) == o = <<>> \/ n = <<>>

\* if (!oldPackage || !newPackage || oldPackage === newPackage) return;
skipsRename(o, n) == o = <<>> \/ n = <<>> \/ o = n

\* Variant of updatePackageReferences that starts with the restructuring.
updatePackageReferencesRestructuresFirst ==
  /\ pc = "start"
  /\ pc' = IF skipsRename(oldPackage, newPackage) THEN "done" ELSE "restructure"
  /\ inputsUnchanged /\ moveUnchanged
  /\ UNCHANGED <<dirs, files, sd, warnings, errors, faults, written, moveResult>>

updatePackageReferences ==
  /\ pc = "start"
  /\ pc' = IF skipsRename(oldPackage, newPackage) THEN "done" ELSE "refs"
  /\ inputsUnchanged /\ moveUnchanged
  /\ UNCHANGED <<dirs, files, sd, warnings, errors, faults, written, moveResult>>

\* updateReferencesInFile on every processed source file of a listing.
\* proc is the set of listing positions whose file is read and rewritten.
rewriteListed(fl, directory, lst, proc, o, n) ==
  [p \in DOMAIN fl |->
     IF \E j \in proc : directory \o lst[j] = p /\ isSourceName(lst[j])
     THEN updatePackageReferencesInContent(fl[p], o, n)
     ELSE fl[p]]

\* Variant of writesFile that writes whether or not the content changed.
writesFileAlways(content, updatedContent) == TRUE

\* if (content !== updatedContent) writeFileContent(...)
writesFile(content, updatedContent) == content # updatedContent

\* The files among the processed ones P that are written: fl2 holds the
\* rewritten contents.
writtenPaths(fl, fl2, P) ==
  {p \in P \cap DOMAIN fl : writesFile(fl[p], fl2[p])}

\* updateAllPackageReferencesInProject, one source directory per step.
\* fault "stat" at k ends the loop at entry k; fault "file" at k is a failed
\* read or write of file k, which is logged and skipped.
updateReferencesInDirectory ==
  /\ pc = "refs"
  /\ LET directory == pathJoin(appModule, referenceDirs[sd])
         lst == readdirRecursive(dirs, files, directory)
     IN \E fault \in {"none", "readdir", "stat", "file"}, k \in 0..Len(lst) :
          /\ fault = "none" => k = 0
          /\ fault = "readdir" => k = 0 /\ faults > 0 /\ directory \in dirs
          /\ fault = "stat" => k > 0 /\ faults > 0
          /\ fault = "file" => /\ k > 0 /\ faults > 0
                               /\ isSourceName(lst[k])
                               /\ directory \o lst[k] \in DOMAIN files
          /\ LET proc == CASE fault = "none" -> 1..Len(lst)
                           [] fault = "readdir" -> {}
                           [] fault = "stat" -> 1..(k - 1)
                           [] fault = "file" -> (1..Len(lst)) \ {k}
                 fl2 == rewriteListed(files, directory, lst, proc,
                                      oldPackage, newPackage)
             IN /\ files' = fl2
                /\ written' = written \cup writtenPaths(files, fl2,
                     {directory \o lst[j] :
                        j \in {i \in proc : isSourceName(lst[i])}})
          /\ faults' = IF fault = "none" THEN faults ELSE faults - 1
          /\ warnings' = IF fault = "file" THEN warnings + 1 ELSE warnings
  /\ IF sd < Len(referenceDirs)
     THEN pc' = "refs" /\ sd' = sd + 1
     ELSE pc' = "restructure" /\ sd' = 1
  /\ inputsUnchanged /\ moveUnchanged
  /\ UNCHANGED <<dirs, errors, moveResult>>

\* The loop of updatePackageReferences moves on to the next source directory.
nextSourceDir ==
  IF sd < Len(sourceDirs)
  THEN pc' = "restructure" /\ sd' = sd + 1
  ELSE pc' = "build" /\ sd' = sd

sourcePath == pathJoin(appModule, sourceDirs[sd])

\* if (fs.existsSync(sourcePath)) is false
skipSourceDir ==
  /\ pc = "restructure"
  /\ ~exists(dirs, files, sourcePath)
  /\ nextSourceDir
  /\ inputsUnchanged /\ moveUnchanged
  /\ UNCHANGED <<dirs, files, warnings, errors, faults, written, moveResult>>

\* restructurePackageDirectory up to the call of findOldPackageRoot.
locate ==
  /\ pc = "restructure"
  /\ exists(dirs, files, sourcePath)
  /\ oldPackageRoot' = findOldPackageRoot(dirs, files, sourcePath, oldPackage)
  /\ pc' = "located"
  /\ moveResult' = "none"
  /\ inputsUnchanged
  /\ UNCHANGED <<dirs, files, sd, newPackageRoot, listing, idx, movedItems,
                 cur, warnings, errors, faults, written>>

\* restructurePackageDirectory up to the call of findOldPackageRoot, with a
\* listing that throws inside hasSourceFiles: the exact directory is missing,
\* the loop reaches the existing prefix directory d and takes it as a
\* directory without source files.
locateListingFails ==
  /\ pc = "restructure"
  /\ exists(dirs, files, sourcePath)
  /\ faults > 0
  /\ ~exists(dirs, files, pathJoin(sourcePath, packageToPath(oldPackage)))
  /\ LET parts == splitDots(oldPackage)
         reached == findPartial(dirs, files, sourcePath, parts, Len(parts))
     IN \E i \in 1..Len(parts) :
          LET d == pathJoin(sourcePath,
                            packageToPath(JoinWith(SubSeq(parts, 1, i), ".")))
          IN /\ d \in dirs
             /\ reached = NoRoot \/ Len(reached) <= Len(d)
             /\ oldPackageRoot' =
                  findPartialUnlisted(dirs, files, sourcePath, parts,
                                      Len(parts), {d})
  /\ faults' = faults - 1
  /\ pc' = "located"
  /\ moveResult' = "unlisted"
  /\ inputsUnchanged
  /\ UNCHANGED <<dirs, files, sd, newPackageRoot, listing, idx, movedItems,
                 cur, warnings, errors, written>>

rootFound == oldPackageRoot # NoRoot /\ exists(dirs, files, oldPackageRoot)

\* movePackageStructure up to the loop.
beginMove ==
  /\ pc = "located"
  /\ rootFound
  /\ LET root == pathJoin(sourcePath, packageToPath(newPackage))
         ds2 == ensureDirectoryExists(dirs, files, root)
     IN /\ newPackageRoot' = root
        /\ dirs' = ds2
        /\ listing' = readdirRecursive(ds2, files, oldPackageRoot)
  /\ idx' = 1
  /\ movedItems' = 0
  /\ pc' = "move"
  /\ inputsUnchanged
  /\ UNCHANGED <<files, sd, oldPackageRoot, cur, warnings, errors, faults,
                 written, moveResult>>

\* Variant of createNewPackageDir that creates no directory.
createNewPackageDirSkipped ==
  /\ pc = "located"
  /\ ~rootFound
  /\ moveResult' = "created"
  /\ nextSourceDir
  /\ inputsUnchanged /\ moveUnchanged
  /\ UNCHANGED <<dirs, files, warnings, errors, faults, written>>

\* The else branch of restructurePackageDirectory.
createNewPackageDir ==
  /\ pc = "located"
  /\ ~rootFound
  /\ dirs' = ensureDirectoryExists(dirs, files,
               pathJoin(sourcePath, packageToPath(newPackage)))
  /\ moveResult' = "created"
  /\ nextSourceDir
  /\ inputsUnchanged /\ moveUnchanged
  /\ UNCHANGED <<files, warnings, errors, faults, written>>

\* mkdirSync or the listing throws: the catch of movePackageStructure logs an
\* error, the catch of restructurePackageDirectory a warning.
beginFails ==
  /\ pc = "located"
  /\ faults > 0
  /\ \E op \in {"mkdir", "readdir"} :
       /\ op = "readdir" => rootFound
       /\ dirs' = IF op = "readdir"
                  THEN ensureDirectoryExists(dirs, files,
                         pathJoin(sourcePath, packageToPath(newPackage)))
                  ELSE dirs
       /\ moveResult' = op
  /\ errors' = IF rootFound THEN errors + 1 ELSE errors
  /\ warnings' = warnings + 1
  /\ faults' = faults - 1
  /\ nextSourceDir
  /\ inputsUnchanged /\ moveUnchanged
  /\ UNCHANGED <<files, written>>

oldFilePath == oldPackageRoot \o listing[idx]
newFilePath == newPackageRoot \o listing[idx]

\* Variant of moveEntry that removes the original before writing the copy.
moveEntryUnlinksFirst ==
  /\ pc = "move"
  /\ idx <= Len(listing)
  /\ exists(dirs, files, oldFilePath)
  /\ IF oldFilePath \in DOMAIN files
     THEN /\ dirs' = ensureDirectoryExists(dirs, files, dirname(newFilePath))
          /\ files' = writeFile(unlink(files, oldFilePath), newFilePath,
                        IF isSourceName(listing[idx])
                        THEN updatePackageDeclarationWithSubdir(
                               files[oldFilePath], newPackage,
                               relativeDirname(listing[idx]))
                        ELSE files[oldFilePath])
          /\ written' = written \cup {newFilePath}
          /\ pc' = "unlink"
          /\ idx' = idx
     ELSE /\ idx' = idx + 1
          /\ pc' = "move"
          /\ UNCHANGED <<dirs, files, written>>
  /\ inputsUnchanged
  /\ UNCHANGED <<sd, oldPackageRoot, newPackageRoot, listing, movedItems, cur,
                 warnings, errors, faults, moveResult>>

\* One iteration of the loop of movePackageStructure up to the write or copy.
moveEntry ==
  /\ pc = "move"
  /\ idx <= Len(listing)
  /\ exists(dirs, files, oldFilePath)
  /\ IF oldFilePath \in DOMAIN files
     THEN /\ dirs' = ensureDirectoryExists(dirs, files, dirname(newFilePath))
          /\ files' = writeFile(files, newFilePath,
                        IF isSourceName(listing[idx])
                        THEN updatePackageDeclarationWithSubdir(
                               files[oldFilePath], newPackage,
                               relativeDirname(listing[idx]))
                        ELSE files[oldFilePath])
          /\ written' = written \cup {newFilePath}
          /\ pc' = "unlink"
          /\ idx' = idx
     ELSE /\ idx' = idx + 1
          /\ pc' = "move"
          /\ UNCHANGED <<dirs, files, written>>
  /\ inputsUnchanged
  /\ UNCHANGED <<sd, oldPackageRoot, newPackageRoot, listing, movedItems, cur,
                 warnings, errors, faults, moveResult>>

\* statSync, mkdirSync, readFileSync, writeFileSync or copyFileSync throws.
moveFails ==
  /\ pc = "move"
  /\ idx <= Len(listing)
  /\ \E op \in {"stat", "mkdir", "read", "write"} :
       /\ op # "stat" => oldFilePath \in DOMAIN files
       /\ op = "read" => isSourceName(listing[idx])
       /\ dirs' = IF op \in {"read", "write"}
                  THEN ensureDirectoryExists(dirs, files, dirname(newFilePath))
                  ELSE dirs
       /\ moveResult' = op
  /\ IF exists(dirs, files, oldFilePath)
     THEN faults > 0 /\ faults' = faults - 1
     ELSE faults' = faults
  /\ errors' = errors + 1
  /\ warnings' = warnings + 1
  /\ nextSourceDir
  /\ inputsUnchanged /\ moveUnchanged
  /\ UNCHANGED <<files, written>>

\* movedItems++; fs.unlinkSync(oldFilePath);
unlinkOld ==
  /\ pc = "unlink"
  /\ movedItems' = movedItems + 1
  /\ files' = unlink(files, oldFilePath)
  /\ idx' = idx + 1
  /\ pc' = "move"
  /\ inputsUnchanged
  /\ UNCHANGED <<dirs, sd, oldPackageRoot, newPackageRoot, listing, cur,
                 warnings, errors, faults, written, moveResult>>

unlinkFails ==
  /\ pc = "unlink"
  /\ faults > 0
  /\ faults' = faults - 1
  /\ movedItems' = movedItems + 1
  /\ errors' = errors + 1
  /\ warnings' = warnings + 1
  /\ moveResult' = "unlink"
  /\ nextSourceDir
  /\ inputsUnchanged
  /\ UNCHANGED <<dirs, files, oldPackageRoot, newPackageRoot, listing, idx,
                 cur, written>>

\* The end of the loop: if (movedItems > 0) cleanupOldPackageStructure(...)
endMove ==
  /\ pc = "move"
  /\ idx > Len(listing)
  /\ IF movedItems > 0
     THEN /\ pc' = "cleanup"
          /\ cur' = oldPackageRoot
          /\ UNCHANGED <<sd, moveResult>>
     ELSE /\ moveResult' = "moved"
          /\ nextSourceDir
          /\ UNCHANGED cur
  /\ inputsUnchanged
  /\ UNCHANGED <<dirs, files, oldPackageRoot, newPackageRoot, listing, idx,
                 movedItems, warnings, errors, faults, written>>

\* Variant of removable that forgets the emptiness test.
removableNonEmpty(ds, fl, directory) == directory \in ds /\ directory # <<>>

\* The test of cleanupOldPackageStructure: the directory exists, is empty and
\* can be removed (rmdirSync of the working directory itself fails).
removable(ds, fl, directory) ==
  /\ directory \in ds
  /\ readdir(ds, fl, directory) = {}
  /\ directory # <<>>

\* One call of cleanupOldPackageStructure; the recursive call on the parent
\* is the next step.
cleanupOldPackageStructure ==
  /\ pc = "cleanup"
  /\ IF removable(dirs, files, cur)
     THEN /\ dirs' = dirs \ {cur}
          /\ cur' = dirname(cur)
          /\ UNCHANGED <<pc, sd, moveResult>>
     ELSE /\ moveResult' = "moved"
          /\ nextSourceDir
          /\ UNCHANGED <<dirs, cur>>
  /\ inputsUnchanged
  /\ UNCHANGED <<files, oldPackageRoot, newPackageRoot, listing, idx,
                 movedItems, warnings, errors, faults, written>>

\* readdirSync or rmdirSync throws inside cleanupOldPackageStructure.
cleanupFails ==
  /\ pc = "cleanup"
  /\ faults > 0
  /\ cur \in dirs
  /\ faults' = faults - 1
  /\ moveResult' = "moved"
  /\ nextSourceDir
  /\ inputsUnchanged /\ moveUnchanged
  /\ UNCHANGED <<dirs, files, warnings, errors, written>>

\* The build files of the module.
descriptorPaths == {pathJoin(appModule, buildFiles[i]) : i \in 1..Len(buildFiles)}

updateBuildFiles ==
  /\ pc = "build"
  /\ \E failing \in SUBSET (descriptorPaths \cap DOMAIN files) :
       /\ Cardinality(failing) <= 1
       /\ failing # {} => faults > 0
       /\ LET fl2 == [p \in DOMAIN files |->
                        IF p \in descriptorPaths \ failing
                        THEN updateBuildContent(files[p], oldPackage, newPackage)
                        ELSE files[p]]
          IN /\ files' = fl2
             /\ written' = written \cup writtenPaths(files, fl2,
                                                    descriptorPaths \ failing)
       /\ faults' = faults - Cardinality(failing)
       /\ warnings' = warnings + Cardinality(failing)
  /\ pc' = "manifest"
  /\ inputsUnchanged /\ moveUnchanged
  /\ UNCHANGED <<dirs, sd, errors, moveResult>>

updateManifest ==
  /\ pc = "manifest"
  /\ LET manifestPath == pathJoin(appModule, manifestFile)
     IN \E fails \in BOOLEAN :
          /\ fails => faults > 0 /\ manifestPath \in DOMAIN files
          /\ LET fl2 == [p \in DOMAIN files |->
                           IF p = manifestPath /\ ~fails
                           THEN updateManifestContent(files[p], oldPackage,
                                                      newPackage)
                           ELSE files[p]]
             IN /\ files' = fl2
                /\ written' = written \cup writtenPaths(files, fl2,
                     IF fails THEN {} ELSE {manifestPath})
          /\ faults' = IF fails THEN faults - 1 ELSE faults
          /\ warnings' = IF fails THEN warnings + 1 ELSE warnings
  /\ pc' = "done"
  /\ inputsUnchanged /\ moveUnchanged
  /\ UNCHANGED <<dirs, sd, errors, moveResult>>

Next ==
  \/ updatePackageReferences
  \/ updateReferencesInDirectory
  \/ skipSourceDir
  \/ locate
  \/ locateListingFails
  \/ beginMove
  \/ createNewPackageDir
  \/ beginFails
  \/ moveEntry
  \/ moveFails
  \/ unlinkOld
  \/ unlinkFails
  \/ endMove
  \/ cleanupOldPackageStructure
  \/ cleanupFails
  \/ updateBuildFiles
  \/ updateManifest

Spec == Init /\ [][Next]_vars

\* ------------------------------------------- the same call made again
\* Bound on the number of calls of updatePackageReferences in a behaviour.
MaxCalls == 2

\* updatePackageReferences(appModule, oldPackage, newPackage) is called once
\* more with the same arguments on the tree the earlier call left behind.
callAgain ==
  /\ pc = "done"
  /\ Len(previous) + 1 < MaxCalls
  /\ previous' = Append(previous, [files0 |-> files0, dirs0 |-> dirs0,
                                    files |-> files, errors |-> errors,
                                    faults |-> faults])
  /\ files0' = files
  /\ dirs0' = dirs
  /\ pc' = "start"
  /\ sd' = 1
  /\ written' = {}
  /\ moveResult' = "none"
  /\ moveUnchanged
  /\ UNCHANGED <<dirs, files, oldPackage, newPackage, warnings, errors, faults,
                 codec, run, assetRun>>

RerunNext == Next \/ callAgain

RerunSpec == Init /\ [][RerunNext]_vars

\* ------------------------------------------- the codec on its own
\* No rename is in progress.
renameIdle ==
  /\ dirs = {}
  /\ files = <<>>
  /\ files0 = <<>>
  /\ dirs0 = {}
  /\ oldPackage = <<>>
  /\ newPackage = <<>>
  /\ pc = "idle"
  /\ sd = 1
  /\ oldPackageRoot = NoRoot
  /\ newPackageRoot = NoRoot
  /\ listing = <<>>
  /\ idx = 1
  /\ movedItems = 0
  /\ cur = NoRoot
  /\ warnings = 0
  /\ errors = 0
  /\ faults = 0
  /\ written = {}
  /\ moveResult = "none"
  /\ previous = <<>>

renameVars == <<dirs, files, oldPackage, newPackage, pc, sd, oldPackageRoot,
                newPackageRoot, listing, idx, movedItems, cur, warnings,
                errors, faults, files0, dirs0, written, moveResult, previous>>

\* The strings the codec is applied to: segments, dots and slashes in any
\* arrangement, valid or not.
CodecTok == {"com", "app", ".", "/"}
CodecStrings ==
  UNION {[1..n -> CodecTok] : n \in 1..MaxCodecLen}

CodecInit ==
  /\ renameIdle
  /\ run = runIdle
  /\ assetRun = assetIdle
  /\ \E str \in CodecStrings :
       codec = [arg |-> str, calls |-> <<>>, value |-> str]

callPackageToPath ==
  /\ Len(codec.calls) < 2
  /\ codec' = [codec EXCEPT !.calls = Append(@, "packageToPath"),
                            !.value = packageToPath(@)]
  /\ UNCHANGED <<renameVars, run, assetRun>>

callPathToPackage ==
  /\ Len(codec.calls) < 2
  /\ codec' = [codec EXCEPT !.calls = Append(@, "pathToPackage"),
                            !.value = pathToPackage(@)]
  /\ UNCHANGED <<renameVars, run, assetRun>>

CodecNext == callPackageToPath \/ callPathToPackage

CodecSpec == CodecInit /\ [][CodecNext]_vars

\* ------------------------------- the branding part of the entry script
\* The logo download of the script, applyBranding and the outputs, applied
\* to every flavor and to every project type that passes the check of the
\* input.
validProjectTypes == {"android-native-compose", "android-native-xml"}
ProjectTypes == {""} \cup validProjectTypes
Flavors == [logo_url : BOOLEAN, id : BOOLEAN,
            package_name : {<<>>, NsApp, NsFoo},
            app_name : BOOLEAN, theme : BOOLEAN]
\* What detectExistingPackage finds in the module: nothing or com.acme.app.
DetectedPackages == {<<>>, NsApp}

BrandingInit ==
  /\ renameIdle
  /\ codec = codecIdle
  /\ assetRun = assetIdle
  /\ \E t \in ProjectTypes, f \in Flavors, e \in DetectedPackages :
       run = [at |-> "logo", apiKey |-> TRUE, flavorJson |-> "valid",
              projectType |-> t, flavor |-> f,
              existingPackage |-> e, logoPath |-> "null", executed |-> {},
              status |-> "none"]

brandingFrame == UNCHANGED <<renameVars, codec, assetRun>>

\* if (projectType) { logoPath = await handleLogoDownload(flavor, apiKey); }
downloadsLogo(projectType) == projectType # ""

\* handleLogoDownload: a failed download is logged and gives null.
downloadLogoStep ==
  /\ run.at = "logo"
  /\ IF downloadsLogo(run.projectType) /\ run.flavor.logo_url /\ run.flavor.id
     THEN \E ok \in BOOLEAN :
            run' = [run EXCEPT !.at = "branding",
                               !.executed = @ \cup {"downloadAsset"},
                               !.logoPath = IF ok THEN "path" ELSE "null"]
     ELSE run' = [run EXCEPT !.at = "branding"]
  /\ brandingFrame

\* Variant of skipsFileManipulation that never returns early.
skipsFileManipulationNever(projectType) == FALSE

\* if (!projectType) { ... return; }
skipsFileManipulation(projectType) == projectType = ""

\* applyBranding up to detectExistingPackage.
applyBranding ==
  /\ run.at = "branding"
  /\ IF skipsFileManipulation(run.projectType)
     THEN run' = [run EXCEPT !.at = "outputs"]
     ELSE run' = [run EXCEPT !.at = "rename",
                             !.executed = @ \cup {"findAndroidAppModule",
                                                  "detectExistingPackage"}]
  /\ brandingFrame

\* if (existingPackage && newPackage && existingPackage !== newPackage)
renamePackageStep ==
  /\ run.at = "rename"
  /\ LET e == run.existingPackage
         n == run.flavor.package_name
     IN run' = [run EXCEPT !.at = "applicationId",
                           !.executed = IF e # <<>> /\ n # <<>> /\ e # n
                                        THEN @ \cup {"updatePackageReferences"}
                                        ELSE @]
  /\ brandingFrame

\* if (newPackage) updateApplicationId(appModule, newPackage);
applicationIdStep ==
  /\ run.at = "applicationId"
  /\ run' = [run EXCEPT !.at = "appName",
                        !.executed = IF run.flavor.package_name # <<>>
                                     THEN @ \cup {"updateApplicationId"}
                                     ELSE @]
  /\ brandingFrame

\* if (flavor.app_name) updateAppName(appModule, flavor);
appNameStep ==
  /\ run.at = "appName"
  /\ run' = [run EXCEPT !.at = "theming",
                        !.executed = IF run.flavor.app_name
                                     THEN @ \cup {"updateAppName"}
                                     ELSE @]
  /\ brandingFrame

applyTheming ==
  /\ run.at = "theming"
  /\ run' = [run EXCEPT
       !.at = "icons",
       !.executed =
          IF ~run.flavor.theme THEN @
          ELSE IF run.projectType = "android-native-compose"
               THEN @ \cup {"updateComposeTheme"}
               ELSE IF run.projectType = "android-native-xml"
                    THEN @ \cup {"updateXmlColors", "createThemeXml"}
                    ELSE @]
  /\ brandingFrame

\* if (logoPath) { generateAppIcons; if (iconSuccess) generateAdaptiveIcons }
generateIconsStep ==
  /\ run.at = "icons"
  /\ IF run.logoPath # "null"
     THEN \E iconSuccess \in BOOLEAN :
            run' = [run EXCEPT
              !.at = "outputs",
              !.executed = @ \cup {"generateAppIcons"}
                             \cup (IF iconSuccess
                                   THEN {"generateAdaptiveIcons"} ELSE {})]
     ELSE run' = [run EXCEPT !.at = "outputs"]
  /\ brandingFrame

\* A call of applyBranding raises: `Failed to apply branding` is thrown on
\* and the catch of the script calls core.setFailed.
brandingRaises ==
  /\ \/ /\ run.at = "theming"
        /\ run.flavor.theme
        /\ run.projectType = "android-native-compose"
        /\ run' = [run EXCEPT !.at = "end", !.status = "failed",
                              !.executed = @ \cup {"updateComposeTheme"}]
     \/ /\ run.at = "icons"
        /\ run.logoPath # "null"
        /\ run' = [run EXCEPT !.at = "end", !.status = "failed",
                              !.executed = @ \cup {"generateAppIcons"}]
  /\ brandingFrame

\* core.setOutput("status", "success") and the other outputs.
setOutputs ==
  /\ run.at = "outputs"
  /\ run' = [run EXCEPT !.at = "end", !.status = "success"]
  /\ brandingFrame

BrandingNext ==
  \/ downloadLogoStep
  \/ applyBranding
  \/ renamePackageStep
  \/ applicationIdStep
  \/ appNameStep
  \/ applyTheming
  \/ generateIconsStep
  \/ brandingRaises
  \/ setOutputs

BrandingSpec == BrandingInit /\ [][BrandingNext]_vars

\* ------------------------------------- the entry script from its first line
\* The inputs of the action: project-api-key present or empty, flavor empty,
\* not JSON or the JSON of a flavor, project-type empty, supported or not.
FlavorInputs == {"empty", "invalid", "valid"}
ProjectTypeInputs == ProjectTypes \cup {"ios"}

MainInit ==
  /\ renameIdle
  /\ codec = codecIdle
  /\ assetRun = assetIdle
  /\ \E k \in BOOLEAN, j \in FlavorInputs, t \in ProjectTypeInputs,
        f \in Flavors, e \in DetectedPackages :
       /\ j # "valid" => f = noFlavor
       /\ run = [at |-> "start", apiKey |-> k, flavorJson |-> j,
                 projectType |-> t, flavor |-> f, existingPackage |-> e,
                 logoPath |-> "null", executed |-> {}, status |-> "none"]

\* The first statement of the try block, `if (flavor.theme) {`, reads the
\* variable that `let flavor;` declares further down in the same block: the
\* read throws a ReferenceError (a TypeError if the build turns `let` into
\* `var`), whatever the inputs are, and control passes to the catch.
exportThemeVariables ==
  /\ run.at = "start"
  /\ run' = [run EXCEPT !.at = "catch"]
  /\ brandingFrame

\* } catch (error) { core.setFailed(error.message); }
setFailed ==
  /\ run.at = "catch"
  /\ run' = [run EXCEPT !.at = "end", !.status = "failed"]
  /\ brandingFrame

MainNext == exportThemeVariables \/ setFailed

MainSpec == MainInit /\ [][MainNext]_vars

\* ------------------------- applyBranding: the rename, then the application id
NoCapture == <<"<null>">>

\* ["']([^"']+)["'] at position b: the captured text, NoCapture for no match.
QuotedCaptureAt(s, b) ==
  LET c == RunEnd(s, b + 1, {s[k] : k \in 1..Len(s)} \ QuoteTok)
  IN IF TokAt(s, b) \in QuoteTok /\ c > b + 1 /\ TokAt(s, c) \in QuoteTok
     THEN SubSeq(s, b + 1, c - 1)
     ELSE NoCapture

\* /applicationId\s*=?\s*["']([^"']+)["']/ at position i
applicationIdCaptureAt(s, i) ==
  IF TokAt(s, i) # "applicationId" THEN NoCapture
  ELSE LET a == RunEnd(s, i + 1, SpaceTok)
           b == IF TokAt(s, a) = "=" THEN RunEnd(s, a + 1, SpaceTok) ELSE a
       IN QuotedCaptureAt(s, b)

\* /namespace\s*=\s*["']([^"']+)["']/ at position i
namespaceCaptureAt(s, i) ==
  IF TokAt(s, i) # "namespace" THEN NoCapture
  ELSE LET a == RunEnd(s, i + 1, SpaceTok)
       IN IF TokAt(s, a) # "=" THEN NoCapture
          ELSE QuotedCaptureAt(s, RunEnd(s, a + 1, SpaceTok))

\* The applicationId of a build file, else its namespace, else NoCapture.
packageNameIn(content) ==
  LET A == {i \in 1..Len(content) : applicationIdCaptureAt(content, i) # NoCapture}
      N == {i \in 1..Len(content) : namespaceCaptureAt(content, i) # NoCapture}
  IN IF A # {} THEN applicationIdCaptureAt(content, Min(A))
     ELSE IF N # {} THEN namespaceCaptureAt(content, Min(N))
          ELSE NoCapture

\* The first loop of updateApplicationId from build file i on.  unreadable
\* holds the build files whose read throws (the catch goes on to the next
\* file); the result counts the reads that threw.
RECURSIVE findCurrentPackageName(_, _, _)
findCurrentPackageName(fl, unreadable, i) ==
  IF i > Len(buildFiles) THEN [name |-> NoCapture, thrown |-> 0]
  ELSE LET buildPath == pathJoin(appModule, buildFiles[i])
           rest == findCurrentPackageName(fl, unreadable, i + 1)
       IN IF buildPath \notin DOMAIN fl THEN rest
          ELSE IF buildPath \in unreadable
               THEN [rest EXCEPT !.thrown = @ + 1]
               ELSE IF packageNameIn(fl[buildPath]) # NoCapture
                    THEN [name |-> packageNameIn(fl[buildPath]), thrown |-> 0]
                    ELSE rest

\* The second loop of updateApplicationId from build file i on: the first
\* build file the replacement changes is written and the function returns.
\* failing holds the build files whose read or write throws.
RECURSIVE replacePackageName(_, _, _, _, _)
replacePackageName(fl, failing, currentPackageName, packageName, i) ==
  IF i > Len(buildFiles) THEN [files |-> fl, thrown |-> 0]
  ELSE LET buildPath == pathJoin(appModule, buildFiles[i])
           rest == replacePackageName(fl, failing, currentPackageName,
                                      packageName, i + 1)
       IN IF buildPath \notin DOMAIN fl THEN rest
          ELSE IF buildPath \in failing
               THEN [rest EXCEPT !.thrown = @ + 1]
               ELSE LET content == ReplaceAll("literal", fl[buildPath],
                                              currentPackageName, packageName)
                    IN IF content # fl[buildPath]
                       THEN [files |-> [fl EXCEPT ![buildPath] = content],
                             thrown |-> 0]
                       ELSE rest

\* detectExistingPackage: the package of the first source file under
\* src/main/java or src/main/kotlin that declares one, <<>> for none.
detectExistingPackage(ds, fl) ==
  LET declared(i) ==
        LET directory == pathJoin(appModule, referenceDirs[i])
            lst == readdirRecursive(ds, fl, directory)
        IN {k \in 1..Len(lst) :
              /\ isSourceName(lst[k])
              /\ directory \o lst[k] \in DOMAIN fl
              /\ extractPackage(fl[directory \o lst[k]]) # <<>>}
      D == {i \in 1..Len(referenceDirs) : declared(i) # {}}
  IN IF D = {} THEN <<>>
     ELSE LET directory == pathJoin(appModule, referenceDirs[Min(D)])
              lst == readdirRecursive(ds, fl, directory)
          IN extractPackage(fl[directory \o lst[Min(declared(Min(D)))]])

\* applyBranding after updatePackageReferences has returned:
\* if (newPackage) updateApplicationId(appModule, newPackage).
\* requireDefined: whether the build of the action gives the module a
\* `require`; without one every pass of the two loops throws and is caught.
updateApplicationId ==
  /\ pc = "done"
  /\ newPackage # <<>>
  /\ \E requireDefined \in BOOLEAN,
        unreadable, failing \in SUBSET (descriptorPaths \cap DOMAIN files) :
       LET found == IF requireDefined
                    THEN findCurrentPackageName(files, unreadable, 1)
                    ELSE [name |-> NoCapture, thrown |-> 0]
           replaces == requireDefined /\ found.name \notin {NoCapture, newPackage}
           result == IF replaces
                     THEN replacePackageName(files, failing, found.name,
                                             newPackage, 1)
                     ELSE [files |-> files, thrown |-> 0]
       IN /\ ~requireDefined => unreadable = {}
          /\ ~replaces => failing = {}
          /\ found.thrown = Cardinality(unreadable)
          /\ result.thrown = Cardinality(failing)
          /\ found.thrown + result.thrown <= faults
          /\ faults' = faults - (found.thrown + result.thrown)
          /\ files' = result.files
          /\ written' = written \cup {p \in DOMAIN files : result.files[p] # files[p]}
          /\ warnings' = warnings + result.thrown
                           + (IF found.name = NoCapture THEN 1 ELSE 0)
  /\ pc' = "applied"
  /\ inputsUnchanged /\ moveUnchanged
  /\ UNCHANGED <<dirs, sd, errors, moveResult>>

ApplyNext == Next \/ updateApplicationId

ApplySpec == Init /\ [][ApplyNext]_vars

\* ------------------------------------------- downloadAndSetAssets
\* Bound on the number of entries of flavor.assets.
MaxAssets == 3
\* The asset names of the model; two of them differ in case only.
AssetNames == {"logo", "Logo", "icon", "font"}
\* assetName.toUpperCase()
toUpperCase(assetName) ==
  CASE assetName \in {"logo", "Logo"} -> "LOGO"
    [] assetName = "icon" -> "ICON"
    [] assetName = "font" -> "FONT"
\* The absolute path downloadAsset returns for an asset.
absolutePath(assetName) == <<"assets", assetName>>
\* Object.entries(assets): the names in the order of the object, each once.
AssetLists ==
  {l \in UNION {[1..n -> AssetNames] : n \in 0..MaxAssets} :
     \A i, j \in 1..Len(l) : i # j => l[i] # l[j]}

AssetInit ==
  /\ renameIdle
  /\ codec = codecIdle
  /\ run = runIdle
  /\ \E l \in AssetLists, o \in BOOLEAN :
       /\ ~o => l = <<>>
       /\ assetRun = [assetIdle EXCEPT !.assets = l, !.isObject = o,
                                       !.at = "called"]

assetFrame == UNCHANGED <<renameVars, codec, run>>

\* if (!assets || typeof assets !== 'object') return {};
enterDownloadAndSetAssets ==
  /\ assetRun.at = "called"
  /\ assetRun' = [assetRun EXCEPT !.at = IF assetRun.isObject THEN "loop"
                                         ELSE "returned"]
  /\ assetFrame

\* Variant of downloadFails in which the exception leaves the function.
downloadFailsRaises ==
  /\ assetRun.at = "loop"
  /\ assetRun.i <= Len(assetRun.assets)
  /\ assetRun' = [assetRun EXCEPT
       !.outcome = Append(@, "failed"),
       !.at = "raised",
       !.failed = TRUE]
  /\ assetFrame

\* One iteration whose downloadAsset throws: the catch logs a warning and
\* the loop goes on.
downloadFails ==
  /\ assetRun.at = "loop"
  /\ assetRun.i <= Len(assetRun.assets)
  /\ assetRun' = [assetRun EXCEPT
       !.outcome = Append(@, "failed"),
       !.warnings = @ + 1,
       !.i = @ + 1]
  /\ assetFrame

\* One iteration whose downloadAsset returns the path of the file.
downloadSucceeds ==
  /\ assetRun.at = "loop"
  /\ assetRun.i <= Len(assetRun.assets)
  /\ LET assetName == assetRun.assets[assetRun.i]
     IN assetRun' = [assetRun EXCEPT
          !.outcome = Append(@, "ok"),
          !.exported = @ \cup {<<toUpperCase(assetName), absolutePath(assetName)>>},
          !.downloadedAssets = @ \cup {assetName},
          !.i = @ + 1]
  /\ assetFrame

\* return downloadedAssets;
returnDownloadedAssets ==
  /\ assetRun.at = "loop"
  /\ assetRun.i > Len(assetRun.assets)
  /\ assetRun' = [assetRun EXCEPT !.at = "returned"]
  /\ assetFrame

\* core.setOutput("assets-downloaded", Object.keys(downloadedAssets).length)
setAssetsDownloaded ==
  /\ assetRun.at = "returned"
  /\ assetRun' = [assetRun EXCEPT
       !.at = "end",
       !.output = Cardinality(assetRun.downloadedAssets)]
  /\ assetFrame

AssetNext ==
  \/ enterDownloadAndSetAssets
  \/ downloadFails
  \/ downloadSucceeds
  \/ returnDownloadedAssets
  \/ setAssetsDownloaded

AssetSpec == AssetInit /\ [][AssetNext]_vars

\* ---------------------------------------------------------------- claims
\* The source root a located package root lies in.
sourceRootOf(p) == SubSeq(p, 1, Len(appModule) + 3)
\* The listing entries that were files under the old root before the run.
movedRels == {listing[k] : k \in {j \in 1..Len(listing) :
                                    oldPackageRoot \o listing[j] \in DOMAIN files0}}
noFaultYet == faults = MaxFaults
relocated == moveResult = "moved" /\ oldPackageRoot # NoRoot

\* C1 (as claimed): after a relocation that ended without an I/O error, every
\* file that was under the located old root is at the mirrored path under the
\* new root and no file is left at its old path.
C1_Completeness ==
  (relocated /\ noFaultYet) =>
    \A r \in movedRels :
      /\ newPackageRoot \o r \in DOMAIN files
      /\ oldPackageRoot \o r \notin DOMAIN files

\* The old and the new root do not contain each other.
disjointRoots ==
  ~IsPrefix(oldPackageRoot, newPackageRoot) /\ ~IsPrefix(newPackageRoot, oldPackageRoot)

\* What the loop of movePackageStructure writes for the entry at idx.
expectedCopy ==
  IF isSourceName(listing[idx])
  THEN updatePackageDeclarationWithSubdir(files[oldFilePath], newPackage,
                                          relativeDirname(listing[idx]))
  ELSE files[oldFilePath]

\* A step of the loop of movePackageStructure keeps the order write, delete.
moveStepOrdered ==
  pc \in {"move", "unlink"} =>
    /\ \A p \in DOMAIN files \ DOMAIN files' :
         /\ pc = "unlink"
         /\ p = oldFilePath
         /\ newFilePath \in DOMAIN files
         /\ newFilePath \in written
         /\ files[newFilePath] = expectedCopy
    /\ (pc = "move" /\ moveResult' \in {"read", "write"}) =>
         /\ oldFilePath \in DOMAIN files'
         /\ files'[oldFilePath] = files[oldFilePath]

\* C2: during movePackageStructure a file disappears only in the unlink step
\* of its own entry, when the new path already holds the written copy; and a
\* step in which the read, write or copy of an entry fails leaves the
\* original file in place with its content.
C2_WriteBeforeDelete == [][moveStepOrdered]_vars

C2_Witness ==
  /\ pc = "move"
  /\ movedItems > 0
  /\ disjointRoots
  /\ oldPackageRoot \o listing[idx - 1] \notin DOMAIN files
  /\ newPackageRoot \o listing[idx - 1] \in DOMAIN files

\* C3 (as claimed, for roots that do not contain each other): after the read
\* or write of one file failed, a warning is logged, that file is still at its
\* old path and every other file of the old root has been relocated.
C3_BestEffort ==
  (moveResult \in {"read", "write"} /\ disjointRoots) =>
    /\ warnings > 0
    /\ oldPackageRoot \o listing[idx] \in DOMAIN files
    /\ \A r \in movedRels \ {listing[idx]} :
         /\ newPackageRoot \o r \in DOMAIN files
         /\ oldPackageRoot \o r \notin DOMAIN files

\* C4: with the old namespace equal to the new one, no file is moved or
\* written, no directory is created or removed and nothing is logged.
C4_IdempotentNoOp ==
  oldPackage = newPackage =>
    /\ files = files0
    /\ dirs = dirs0
    /\ written = {}
    /\ warnings = 0
    /\ errors = 0

C4_Witness ==
  /\ pc = "done"
  /\ oldPackage = newPackage
  /\ \E p \in DOMAIN files : extractPackage(files[p]) = oldPackage

\* C5 (as claimed, for roots that do not contain each other): a source file
\* with a declaration, relocated from oldRoot/d/File, is at newRoot/d/File and
\* declares new, or new.<d with dots> when d is not empty.
C5_SubpackagePreserved ==
  (relocated /\ noFaultYet /\ disjointRoots) =>
    \A r \in movedRels :
      (isSourceName(r) /\ extractPackage(files0[oldPackageRoot \o r]) # <<>>) =>
        /\ newPackageRoot \o r \in DOMAIN files
        /\ extractPackage(files[newPackageRoot \o r]) =
             IF Len(r) = 1 THEN newPackage
             ELSE newPackage \o <<".">> \o JoinWith(SubSeq(r, 1, Len(r) - 1), ".")

\* C6 (as claimed): after a relocation that moved every file out of the old
\* root, no directory of the old root's subtree is left, the old root
\* included, and no ancestor of it below the source root is left empty.
C6_PostOrderPruning ==
  (/\ relocated /\ noFaultYet /\ movedItems > 0
   /\ \A p \in DOMAIN files : ~IsPrefix(oldPackageRoot, p)) =>
    /\ \A d \in dirs : ~IsPrefix(oldPackageRoot, d)
    /\ \A d \in dirs :
         (/\ IsPrefix(d, oldPackageRoot)
          /\ Len(d) > Len(sourceRootOf(oldPackageRoot))) =>
            readdir(dirs, files, d) # {}

\* C7 (as claimed): every configured source root that existed at the start
\* exists in every state of the run.
C7_SourceRootsKept ==
  \A i \in 1..Len(sourceDirs) :
    pathJoin(appModule, sourceDirs[i]) \in dirs0 =>
      pathJoin(appModule, sourceDirs[i]) \in dirs

\* A step of cleanupOldPackageStructure removes nothing that has content.
cleanupStepSafe ==
  pc = "cleanup" =>
    /\ files' = files
    /\ \A d \in dirs \ dirs' : readdir(dirs, files, d) = {}
    /\ \A d \in dirs :
         (\E p \in DOMAIN files : IsPrefix(d, p)) => d \in dirs'

\* C8: a step of cleanupOldPackageStructure deletes no file, removes a
\* directory only if it has no entry at that moment, and so keeps every
\* directory that has a file somewhere below it.
C8_PruneOnlyEmpty == [][cleanupStepSafe]_vars

C8_Witness ==
  /\ pc = "cleanup"
  /\ oldPackageRoot \notin dirs
  /\ cur \in dirs
  /\ \E d \in readdir(dirs, files, cur) :
       d \in dirs /\ \E p \in DOMAIN files : IsPrefix(d, p)

\* C9: the located root is sourceRoot/toPath(old) when that path exists;
\* otherwise the directory of the longest prefix of old's segments that
\* exists and has a .kt or .java file below it; none when there is no such
\* prefix.
C9_LocatorResult ==
  (pc = "located" /\ moveResult # "unlisted") =>
    LET segs == SelectSeq(oldPackage, LAMBDA t : t # ".")
        dirOf(k) == sourcePath \o SubSeq(segs, 1, k)
        holdsSource(d) ==
          \E p \in DOMAIN files :
            IsPrefix(d, p) /\ p # d /\ p[Len(p)] \in KtNames \cup JavaNames
        good == {k \in 1..Len(segs) :
                   exists(dirs, files, dirOf(k)) /\ holdsSource(dirOf(k))}
    IN IF exists(dirs, files, dirOf(Len(segs)))
       THEN oldPackageRoot = dirOf(Len(segs))
       ELSE IF good = {} THEN oldPackageRoot = NoRoot
            ELSE oldPackageRoot = dirOf(Max(good))

\* Scenario B: only com/acme exists and holds a source file.
C9_Witness ==
  /\ pc = "located"
  /\ sd = 1
  /\ oldPackage = NsApp
  /\ MainRoot \o <<"com", "acme", "app">> \notin dirs
  /\ MainRoot \o <<"com", "acme", "Main.kt">> \in DOMAIN files
  /\ oldPackageRoot = MainRoot \o <<"com", "acme">>

\* A step of the reference rewrite without a failure changes a declaration
\* only if it names old (or, by the qualified pass, a namespace inside old).
declarationStepExact ==
  (pc = "refs" /\ faults' = faults) =>
    \A p \in DOMAIN files :
      (IsPrefix(pathJoin(appModule, referenceDirs[sd]), p) /\ isSourceName(p)) =>
        LET d == extractPackage(files[p])
            d2 == extractPackage(files'[p])
        IN /\ (d = oldPackage /\ ~IsPrefix(oldPackage \o <<".">>, newPackage)) =>
                d2 = newPackage
           /\ (d # oldPackage /\ ~IsPrefix(oldPackage \o <<".">>, d)) => d2 = d

\* C10 (as claimed): the reference rewrite turns a declaration of exactly
\* old into one of new (looked at for a new namespace that does not lie
\* inside old), and leaves the declaration of any namespace that is neither
\* old nor inside old (old followed by a dot) as it is.
C10_ExactDeclaration == [][declarationStepExact]_vars

\* The quoted value assigned to key at position i of a descriptor, <<"<none>">>
\* when no assignment of key starts at i.  eqRequired: the `=` is mandatory.
NoValue == <<"<none>">>
AssignedValueAt(s, i, key, eqRequired) ==
  IF TokAt(s, i) # key THEN NoValue
  ELSE LET a == RunEnd(s, i + 1, SpaceTok)
           hasEq == TokAt(s, a) = "="
           b == IF hasEq THEN RunEnd(s, a + 1, SpaceTok) ELSE a
           c == RunEnd(s, b + 1, NameTok)
       IN IF (eqRequired /\ ~hasEq) \/ TokAt(s, b) \notin QuoteTok
             \/ TokAt(s, c) \notin QuoteTok
          THEN NoValue
          ELSE SubSeq(s, b + 1, c - 1)

\* The values assigned to key in a descriptor, in the order of the text.
RECURSIVE AssignedValuesFrom(_, _, _, _)
AssignedValuesFrom(s, i, key, eqRequired) ==
  IF i > Len(s) THEN <<>>
  ELSE LET v == AssignedValueAt(s, i, key, eqRequired)
       IN (IF v = NoValue THEN <<>> ELSE <<v>>)
            \o AssignedValuesFrom(s, i + 1, key, eqRequired)

AssignedValues(s, key, eqRequired) == AssignedValuesFrom(s, 1, key, eqRequired)

\* Every value equal to old replaced by new, the others kept.
RenamedValues(vs, o, n) == [k \in 1..Len(vs) |-> IF vs[k] = o THEN n ELSE vs[k]]

\* What a descriptor step may do to the assignments of key in file p.
descriptorExact(p, key, eqRequired) ==
  LET vs == AssignedValues(files[p], key, eqRequired)
      vs2 == AssignedValues(files'[p], key, eqRequired)
  IN /\ vs2 = RenamedValues(vs, oldPackage, newPackage) \/ files'[p] = files[p]
     /\ faults' = faults => vs2 = RenamedValues(vs, oldPackage, newPackage)
     /\ files'[p] # files[p] => \E k \in 1..Len(vs) : vs[k] = oldPackage

descriptorStepExact ==
  /\ pc = "build" =>
       \A p \in descriptorPaths \cap DOMAIN files :
         descriptorExact(p, "applicationId", FALSE)
  /\ pc = "manifest" =>
       \A p \in {pathJoin(appModule, manifestFile)} \cap DOMAIN files :
         descriptorExact(p, "package", TRUE)

\* C11: updateBuildFiles and updateManifest turn every applicationId and
\* package assignment whose quoted value is exactly old into one whose quoted
\* value is new, and leave every assignment with another value (old as a
\* proper prefix included) and every file without such an assignment as it is.
C11_DescriptorExactMatch == [][descriptorStepExact]_vars

C11_Witness ==
  /\ pc = "done"
  /\ \E p \in descriptorPaths \cap DOMAIN files :
       /\ oldPackage \in {AssignedValues(files0[p], "applicationId", FALSE)[k] :
                            k \in 1..Len(AssignedValues(files0[p], "applicationId", FALSE))}
       /\ AssignedValues(files[p], "applicationId", FALSE) = <<newPackage>>
  /\ AssignedValues(files[pathJoin(appModule, manifestFile)], "package", TRUE)
       = <<newPackage>>
  /\ files[pathJoin(appModule, manifestFile)] # files0[pathJoin(appModule, manifestFile)]

\* The descriptor with only the quoted value of the matching assignments of
\* key replaced: key, operator, quotes and all other text kept.
RECURSIVE ValueOnlyRewriteFrom(_, _, _, _, _, _)
ValueOnlyRewriteFrom(s, i, key, eqRequired, o, n) ==
  IF i > Len(s) THEN <<>>
  ELSE IF AssignedValueAt(s, i, key, eqRequired) = o
       THEN LET a == RunEnd(s, i + 1, SpaceTok)
                b == IF TokAt(s, a) = "=" THEN RunEnd(s, a + 1, SpaceTok) ELSE a
            IN SubSeq(s, i, b) \o n
                 \o ValueOnlyRewriteFrom(s, b + 1 + Len(o), key, eqRequired, o, n)
       ELSE <<s[i]>> \o ValueOnlyRewriteFrom(s, i + 1, key, eqRequired, o, n)

buildStepValueOnly ==
  (pc = "build" /\ faults' = MaxFaults) =>
    \A p \in descriptorPaths \cap DOMAIN files :
      files'[p] = ValueOnlyRewriteFrom(files[p], 1, "applicationId", FALSE,
                                       oldPackage, newPackage)

\* C12 (as claimed): a step of updateBuildFiles without a failure replaces,
\* in every build file, only the old literal inside the quotes of a matching
\* applicationId assignment; the key, an `=` that was there and all other
\* text stay as they were.
C12_OnlyValueChanges == [][buildStepValueOnly]_vars

\* The text holds `import old` or `old.`.
containsReference(s, o) ==
  \E i \in 1..Len(s) :
    \/ HasLit(s, i, o \o <<".">>)
    \/ TokAt(s, i) = "import" /\ TokAt(s, i + 1) \in SpaceTok
         /\ HasLit(s, RunEnd(s, i + 1, SpaceTok), o)

underSourceDir(p) ==
  \E i \in 1..Len(sourceDirs) : IsPrefix(pathJoin(appModule, sourceDirs[i]), p)

\* C13 (as claimed, for a new namespace that does not itself contain old):
\* after a run without an I/O error, no source file under any of the six
\* source directories holds `import old` or `old.`.
C13_ProjectWideCoverage ==
  (/\ pc = "done" /\ ~skipsRename(oldPackage, newPackage) /\ noFaultYet
   /\ ~containsReference(newPackage \o <<".">>, oldPackage)) =>
    \A p \in DOMAIN files :
      (underSourceDir(p) /\ isSourceName(p)) =>
        ~containsReference(files[p], oldPackage)

\* The text holds the namespace somewhere.
mentions(s, o) == \E i \in 1..Len(s) : HasLit(s, i, o)

rewriteStepWritesChanges ==
  pc \in {"refs", "build", "manifest"} =>
    \A p \in written' \ written :
      /\ p \in DOMAIN files
      /\ files'[p] # files[p]
      /\ mentions(files[p], oldPackage)

\* C14: a step of the reference rewrite, of updateBuildFiles or of
\* updateManifest writes a file only if the content it writes differs from
\* the content read, and never writes a file that does not mention old.
C14_NoWriteWithoutChange == [][rewriteStepWritesChanges]_vars

\* A step that wrote one file and read another one without writing it.
C14_Witness ==
  /\ pc = "restructure"
  /\ sd = 1
  /\ \E p \in written : files[p] # files0[p]
  /\ \E p \in DOMAIN files \ written :
       IsPrefix(MainRoot, p) /\ isSourceName(p) /\ files[p] = files0[p]

\* The lines of a text: each ends at a line terminator or at the end of the
\* text (a terminator at the very end starts no further line).
RECURSIVE LinesFrom(_, _, _)
LinesFrom(s, i, acc) ==
  IF i > Len(s) THEN (IF acc = <<>> THEN <<>> ELSE <<acc>>)
  ELSE IF s[i] = "\n" THEN <<acc>> \o LinesFrom(s, i + 1, <<>>)
       ELSE LinesFrom(s, i + 1, Append(acc, s[i]))

Lines(s) == LinesFrom(s, 1, <<>>)

isDeclarationLine(l) == Len(l) >= 2 /\ l[1] = "package" /\ l[2] \in SpaceTok

moveStepContentFrame ==
  (pc = "move" /\ pc' = "unlink" /\ noFaultYet) =>
    IF ~isSourceName(listing[idx])
    THEN files'[newFilePath] = files[oldFilePath]
    ELSE LET a == Lines(files[oldFilePath])
             b == Lines(files'[newFilePath])
             D == {k \in 1..Len(a) : isDeclarationLine(a[k])}
         IN /\ Len(b) = Len(a)
            /\ \A k \in 1..Len(a) : b[k] # a[k] => (D # {} /\ k = Min(D))

\* C15 (as claimed, in runs without an I/O error): the write or copy step of
\* movePackageStructure gives a non-source file the content of the original,
\* and a source file the lines of the original with at most its first package
\* declaration line changed: the number of lines and every other line, blank
\* ones included, are kept.
C15_ContentFrame == [][moveStepContentFrame]_vars

\* Non-empty segments free of `.` and `/`, joined by sep.
validSegments(str, sep) ==
  /\ str # <<>>
  /\ \A i \in 1..Len(str) : str[i] \notin {".", "/"} \/ str[i] = sep
  /\ str[1] # sep /\ str[Len(str)] # sep
  /\ \A i \in 1..(Len(str) - 1) : ~(str[i] = sep /\ str[i + 1] = sep)

\* C16: a namespace of valid segments converted to a path and back is the
\* namespace again, and a path of valid segments converted to a namespace and
\* back is the path again.
C16_CodecRoundTrip ==
  /\ (codec.calls = <<"packageToPath", "pathToPackage">>
        /\ validSegments(codec.arg, ".")) => codec.value = codec.arg
  /\ (codec.calls = <<"pathToPackage", "packageToPath">>
        /\ validSegments(codec.arg, "/")) => codec.value = codec.arg

C16_Witness ==
  /\ codec.calls = <<"packageToPath", "pathToPackage">>
  /\ codec.arg = <<"com", ".", "app", ".", "com">>
  /\ codec.value = codec.arg

\* The calls that download the logo or change files of the project.
projectManipulations ==
  {"downloadAsset", "updatePackageReferences", "updateApplicationId",
   "updateAppName", "updateComposeTheme", "updateXmlColors", "createThemeXml",
   "generateAppIcons", "generateAdaptiveIcons"}

\* C17: without a project type the script, from the logo download on, makes
\* none of the calls that download the logo, rename the package, update the
\* application id or the app name, apply a theme or generate icons, and has
\* no logo path.
C17_EnvironmentOnlyMode ==
  run.projectType = "" =>
    /\ run.executed \cap projectManipulations = {}
    /\ run.logoPath = "null"

C17_Witness ==
  /\ run.at = "end"
  /\ run.status = "success"
  /\ run.projectType = ""
  /\ run.flavor.logo_url /\ run.flavor.id /\ run.flavor.theme
  /\ run.flavor.app_name
  /\ run.flavor.package_name = NsFoo
  /\ run.existingPackage = NsApp
  /\ run.executed = {}

\* C18 (as claimed): when the reference rewrite is at work in a project whose
\* main source directory holds the old package, the old root has already
\* been located and files have already been relocated.
C18_RewriteAfterRelocation ==
  (pc = "refs" /\ findOldPackageRoot(dirs0, files0, MainRoot, oldPackage) # NoRoot) =>
    /\ oldPackageRoot # NoRoot
    /\ \E p \in DOMAIN files0 : p \notin DOMAIN files

relocationStages == {"restructure", "located", "move", "unlink", "cleanup"}

pipelineStepOrdered ==
  /\ pc = "refs" =>
       /\ oldPackageRoot = NoRoot
       /\ moveResult = "none"
       /\ DOMAIN files = DOMAIN files0
       /\ dirs = dirs0
  /\ pc \in relocationStages \cup {"build", "manifest", "done"} => pc' # "refs"
  /\ (pc \notin relocationStages /\ pc' \in relocationStages) =>
       pc = "refs" /\ sd = Len(referenceDirs)
  /\ pc' = "cleanup" => pc \in {"move", "cleanup"}
  /\ (pc = "cleanup" /\ pc' # "cleanup") => pc' \in {"restructure", "build"}

\* C18 (amended): the project-wide reference rewrite runs first, before any
\* directory is located, relocated or pruned; locating, relocating and pruning
\* start only when the rewrite has gone through its source directories, pruning
\* follows the relocation of the same source directory, and no rewrite step
\* runs after them.
C18_RewriteFirst == [][pipelineStepOrdered]_vars

\* A file rewritten in place by the first stage and relocated afterwards.
C18_Witness ==
  /\ pc = "cleanup"
  /\ \E p \in written : p \in DOMAIN files0 /\ p \notin DOMAIN files

fallbackStepFrame ==
  (pc = "located" /\ ~rootFound /\ faults' = faults) =>
    /\ pathJoin(sourcePath, packageToPath(newPackage)) \in dirs'
    /\ dirs \subseteq dirs'
    /\ files' = files
    /\ errors' = errors
    /\ warnings' = warnings

\* C19: when no old root is found in an existing source directory,
\* restructurePackageDirectory (without an I/O failure) leaves that source
\* directory with the directory of the new namespace in place, with every
\* file and directory it had, and logs neither an error nor a warning.
C19_AnchorNotFoundFallback == [][fallbackStepFrame]_vars

\* The main source directory held only an empty com/acme: the directory of
\* the new namespace was added, com/acme and the files of the project stay.
C19_Witness ==
  /\ moveResult = "created"
  /\ noFaultYet
  /\ sd = 2
  /\ pathJoin(MainRoot, packageToPath(newPackage)) \in dirs \ dirs0
  /\ MainRoot \o <<"com", "acme">> \in dirs
  /\ files # <<>>
  /\ files = files0

\* No line of the text matches the pattern of the declaration rewrite.
noDeclarationLine(s) == \A i \in 1..Len(s) : DeclLineEnd(s, i) = 0

undeclaredMoved ==
  {r \in movedRels : isSourceName(r)
                       /\ noDeclarationLine(files0[oldPackageRoot \o r])}

declarationNotFoundStep ==
  /\ (/\ pc = "move" /\ pc' = "unlink"
      /\ isSourceName(listing[idx])
      /\ noDeclarationLine(files[oldFilePath])) =>
       /\ files'[newFilePath] = files[oldFilePath]
       /\ warnings' = warnings
       /\ errors' = errors
  /\ (relocated /\ noFaultYet /\ disjointRoots /\ undeclaredMoved # {}) =>
       \A r \in movedRels :
         /\ newPackageRoot \o r \in DOMAIN files
         /\ oldPackageRoot \o r \notin DOMAIN files

prunerInvokedStep ==
  (/\ pc \in {"move", "unlink"} /\ pc' \notin {"move", "unlink"}
   /\ faults' = MaxFaults) =>
    /\ pc' = "cleanup"
    /\ cur' = oldPackageRoot

\* C21 (as claimed, for relocations without an I/O error): the step that
\* ends the loop over the entries of an existing old root hands the old root
\* to cleanupOldPackageStructure, whether or not a file was moved.
C21_PrunerAlwaysRuns == [][prunerInvokedStep]_vars

\* The root the first call located in src/main/java, and the new root there.
firstOldRoot ==
  findOldPackageRoot(previous[1].dirs0, previous[1].files0, MainRoot, oldPackage)
mainNewRoot == pathJoin(MainRoot, packageToPath(newPackage))
\* The relative paths the first call moved, and those it left under the root.
firstMoved ==
  {r \in {SubSeq(p, Len(firstOldRoot) + 1, Len(p)) :
            p \in {q \in DOMAIN previous[1].files0 : IsPrefix(firstOldRoot, q)}} :
     /\ firstOldRoot \o r \notin DOMAIN previous[1].files
     /\ mainNewRoot \o r \in DOMAIN previous[1].files}
firstLeft ==
  {SubSeq(p, Len(firstOldRoot) + 1, Len(p)) :
     p \in {q \in DOMAIN previous[1].files : IsPrefix(firstOldRoot, q)}}
\* The first call stopped on a failure after it had moved some file, and the
\* second call has ended without a failure of its own.
resumed ==
  /\ Len(previous) = 1
  /\ pc = "done"
  /\ oldPackage # newPackage
  /\ firstOldRoot # NoRoot
  /\ previous[1].errors > 0
  /\ firstMoved # {}
  /\ faults = previous[1].faults

\* C22 (as claimed): when a relocation stopped on a failure after some files
\* had been moved and the same call is made again, every file the first call
\* left under the old root ends at its mirrored path under the new root, and
\* every file the first call moved keeps its path and its content.
C22_ResumableRerun ==
  resumed =>
    /\ \A r \in firstLeft :
         /\ mainNewRoot \o r \in DOMAIN files
         /\ firstOldRoot \o r \notin DOMAIN files
    /\ \A r \in firstMoved :
         /\ mainNewRoot \o r \in DOMAIN files
         /\ files[mainNewRoot \o r] = previous[1].files[mainNewRoot \o r]

\* The name imported by an import statement that starts a line at position i.
importNameAt(s, i) ==
  IF AtLineStart(s, i) /\ TokAt(s, i) = "import" /\ TokAt(s, i + 1) \in SpaceTok
  THEN LET a == RunEnd(s, i + 1, SpaceTok)
       IN SubSeq(s, a, RunEnd(s, a, NameTok) - 1)
  ELSE NoValue
\* The imported names of a text, in the order of the text.
ImportNames(s) ==
  SelectSeq([i \in 1..Len(s) |-> importNameAt(s, i)], LAMBDA nm : nm # NoValue)
\* old itself or a member of it becomes the same name under new.
renamedImport(nm) ==
  IF nm = oldPackage \/ IsPrefix(oldPackage \o <<".">>, nm)
  THEN newPackage \o SubSeq(nm, Len(oldPackage) + 1, Len(nm))
  ELSE nm

importStepExact ==
  (/\ pc = "refs" /\ faults' = faults
   /\ ~IsPrefix(oldPackage \o <<".">>, newPackage)) =>
    \A p \in DOMAIN files :
      (IsPrefix(pathJoin(appModule, referenceDirs[sd]), p) /\ isSourceName(p)) =>
        ImportNames(files'[p]) =
          [k \in 1..Len(ImportNames(files[p])) |->
             renamedImport(ImportNames(files[p])[k])]

\* C23 (as claimed, looked at for a new namespace that does not lie inside
\* old): the reference rewrite changes the name of an import statement only
\* if the name is old or a member of old (old followed by a dot), and then
\* only its old prefix; the import of a namespace that merely starts with
\* the characters of old keeps its name.
C23_ImportExact == [][importStepExact]_vars

\* The positions of the asset list whose download succeeded.
succeeded == {k \in 1..Len(assetRun.outcome) : assetRun.outcome[k] = "ok"}

\* C24: a failed download never ends the loop or fails the run: when
\* downloadAndSetAssets has returned, every entry of the asset object was
\* attempted, exportVariable was called with the upper-cased name and the
\* path of exactly the assets whose download succeeded, the returned map
\* holds exactly those, and the assets-downloaded output is their number.
C24_PerAssetBestEffort ==
  /\ ~assetRun.failed
  /\ assetRun.at # "raised"
  /\ assetRun.at \in {"returned", "end"} =>
       /\ assetRun.isObject => Len(assetRun.outcome) = Len(assetRun.assets)
       /\ assetRun.downloadedAssets = {assetRun.assets[k] : k \in succeeded}
       /\ assetRun.exported =
            {<<toUpperCase(assetRun.assets[k]), absolutePath(assetRun.assets[k])>> :
               k \in succeeded}
       /\ assetRun.warnings = Len(assetRun.outcome) - Cardinality(succeeded)
  /\ assetRun.at = "end" => assetRun.output = Cardinality(succeeded)

\* A download failed, later ones succeeded, and the output was set.
C24_Witness ==
  /\ assetRun.at = "end"
  /\ Len(assetRun.assets) = MaxAssets
  /\ assetRun.outcome[1] = "failed"
  /\ assetRun.outcome[2] = "ok"
  /\ assetRun.output = MaxAssets - 1

\* The files of a tree under the source directory of the last relocation.
filesUnderSourceRoot(fl) ==
  {p \in DOMAIN fl : IsPrefix(sourceRootOf(oldPackageRoot), p)}

\* No file lies under the new root before the run, except inside the old root.
newRootFree ==
  \A p \in DOMAIN files0 :
    IsPrefix(newPackageRoot, p) => IsPrefix(oldPackageRoot, p)

\* C25 (as claimed, looked at for a new root that holds no file of its own):
\* after a relocation with old # new and without an I/O error, the source
\* directory holds as many files as it held before, whatever the position
\* of the new root relative to the located root.
C25_NoFileLost ==
  (relocated /\ noFaultYet /\ oldPackage # newPackage /\ newRootFree) =>
    Cardinality(filesUnderSourceRoot(files)) =
      Cardinality(filesUnderSourceRoot(files0))

\* The files that lie under the new root and outside the old root before the
\* relocation of the current source directory.
destinationFiles ==
  {p \in DOMAIN files0 :
     IsPrefix(newPackageRoot, p) /\ ~IsPrefix(oldPackageRoot, p)}

\* C26 (as claimed): after a relocation without an I/O error, a file that
\* lay under the new root and not under the old root before it is still
\* there with the content it had (up to the reference rewrite of the run).
C26_DestinationKept ==
  (relocated /\ noFaultYet /\ oldPackage # newPackage) =>
    \A p \in destinationFiles :
      /\ p \in DOMAIN files
      /\ files[p] \in {files0[p],
                       updatePackageReferencesInContent(files0[p], oldPackage,
                                                        newPackage)}

\* The name is old itself or a member of old.
refersToOld(nm) == nm = oldPackage \/ IsPrefix(oldPackage \o <<".">>, nm)

rewriteStepOnce ==
  (pc = "refs" /\ faults' = faults) =>
    \A p \in DOMAIN files :
      (IsPrefix(pathJoin(appModule, referenceDirs[sd]), p) /\ isSourceName(p)) =>
        /\ refersToOld(extractPackage(files[p])) =>
             extractPackage(files'[p]) = renamedImport(extractPackage(files[p]))
        /\ \A k \in 1..Len(ImportNames(files[p])) :
             refersToOld(ImportNames(files[p])[k]) =>
               /\ k <= Len(ImportNames(files'[p]))
               /\ ImportNames(files'[p])[k] = renamedImport(ImportNames(files[p])[k])

\* C27 (as claimed): the reference rewrite replaces old once in every
\* declaration and import that names old or a member of old: `package
\* old.sub` becomes `package new.sub` and `import old.X` becomes `import
\* new.X`, also when new lies inside old.
C27_SubstitutedOnce == [][rewriteStepOnce]_vars

buildGradle == pathJoin(appModule, buildFiles[1])

\* C28 (as claimed, for a new package whose name does not contain the old
\* one): when the build file assigns the detected package to applicationId
\* and to namespace and the flavor names another package, the build file
\* holds no occurrence of the old package after updatePackageReferences and
\* updateApplicationId have run without an I/O error.
C28_NoOldPackageInBuildFile ==
  (/\ pc = "applied"
   /\ noFaultYet
   /\ oldPackage # newPackage
   /\ ~mentions(newPackage, oldPackage)
   /\ detectExistingPackage(dirs0, files0) = oldPackage
   /\ buildGradle \in DOMAIN files0
   /\ \E i \in 1..Len(files0[buildGradle]) :
        applicationIdCaptureAt(files0[buildGradle], i) = oldPackage
   /\ \E i \in 1..Len(files0[buildGradle]) :
        namespaceCaptureAt(files0[buildGradle], i) = oldPackage) =>
    ~mentions(files[buildGradle], oldPackage)

failureStepLogged ==
  (faults' < faults /\ pc \notin {"refs", "cleanup"}) =>
    /\ warnings' > warnings \/ errors' > errors
    /\ pc' \in {"located", "restructure", "build", "manifest", "done"}

\* C29 (as claimed, looked at outside the two stages whose catch logs with
\* core.debug): every step of updatePackageReferences in which an I/O
\* operation fails logs a warning or an error, and the run goes on in the
\* same source directory, with the next one, with the build files, with the
\* manifest or to its end.
C29_FailuresLoggedAndContained == [][failureStepLogged]_vars

\* C30 (as claimed): a run of the entry script with a project-api-key, a
\* flavor that is valid JSON and a project-type that is empty or supported
\* ends with the status output "success" and without a call of setFailed.
C30_ValidRunSucceeds ==
  (/\ run.at = "end"
   /\ run.apiKey
   /\ run.flavorJson = "valid"
   /\ run.projectType \in ProjectTypes) =>
    run.status = "success"

====
